---- MODULE Spec2Model ----
(***************************************************************************)
(* A model of SchemaBuilder (packages/graphql-build/src/SchemaBuilder.js): *)
(* the hook registry and dispatcher, the build / artifact cache and the    *)
(* watch controller.  JavaScript is single threaded and every method runs  *)
(* to completion, so each public method is one action; what a method does  *)
(* on the way (hooks it runs, nested dispatches, listeners it notifies) is *)
(* computed by operators and recorded in the observation variable `last`.  *)
(***************************************************************************)
EXTENDS Integers, Sequences, FiniteSets, TLC

VARIABLES
  hooks,                  \* this.hooks: phase name -> sequence of hook functions
  displayName,            \* fn.displayName of every hook function (<<>> = unset)
  currentPluginName,      \* this.currentPluginName ("" = unset)
  depth,                  \* this.depth
  watchers,               \* this.watchers
  unwatchers,             \* this.unwatchers
  watching,               \* this.watching
  explicitSchemaListener, \* this.explicitSchemaListener (0 = null/undefined)
  triggerChange,          \* this.triggerChange (0 = null/undefined, else closure identity)
  generatedSchema,        \* this.generatedSchema (a value; NullV = unset)
  listeners,              \* EventEmitter: the listeners of the "schema" event, in order
  nextId,                 \* identity of the next object constructed as an artifact
  nextTrigger,            \* identity of the next triggerChange closure
  listening,              \* <<watcher index, trigger>>: listen called, unlisten not yet
  sessions,               \* the watch sessions started: <<trigger, listener>>, in order
  regOrder,               \* per phase, the hook functions in the order hook() accepted them
  last                    \* what the last method call did: outcome, value, event log

vars == <<hooks, displayName, currentPluginName, depth, watchers, unwatchers,
          watching, explicitSchemaListener, triggerChange, generatedSchema,
          listeners, nextId, nextTrigger, listening, sessions, regOrder, last>>

(***************************************************************************)
(* Bounds of the model.                                                    *)
(***************************************************************************)
MaxHooks == 3        \* hook registrations in one run
MaxNest == 2         \* nested applyHooks calls before the call stack overflows
MaxArtifacts == 2    \* artifacts constructed in one run
MaxSessions == 2     \* triggerChange closures created in one run
MaxWatchers == 2     \* addWatcher registrations in one run

(***************************************************************************)
(* Phase names.  this.hooks is an object literal with one array per        *)
(* declared phase; a lookup this.hooks[name] of any other name walks the   *)
(* prototype chain, so a name Object.prototype defines yields a truthy     *)
(* value that is not an array, and every other name yields undefined.      *)
(***************************************************************************)
Phases ==
  {"build", "init", "GraphQLSchema", "GraphQLObjectType",
   "GraphQLObjectType:interfaces", "GraphQLObjectType:fields",
   "GraphQLInputObjectType", "GraphQLInputObjectType:fields",
   "GraphQLEnumType", "GraphQLEnumType:values", "field", "field:args",
   "inputField"}

InheritedNames == {"constructor", "toString"}

\* The outcome of this.hooks[hookName]
Lookup(h, hookName) ==
  IF hookName \in DOMAIN h THEN "array"
  ELSE IF hookName \in InheritedNames THEN "inherited"
  ELSE "undefined"

(***************************************************************************)
(* Values.  kind "obj" is an object (truthy); "null" and "zero" are the    *)
(* falsy values null and 0.  trail lists the hooks that transformed the    *)
(* object, a and b are two of its properties, frozen is Object.isFrozen,   *)
(* bound says whether its function members were bound, id is its identity  *)
(* when it is an artifact.                                                 *)
(***************************************************************************)
\* The value of a property that was never set
Undefined == -1

\* The number undefined + 1 evaluates to
NaN == -2

\* v + 1 for the value v of a property
PlusOne(v) == IF v = Undefined \/ v = NaN THEN NaN ELSE v + 1

Obj(trail) ==
  [kind |-> "obj", trail |-> trail, a |-> Undefined, b |-> Undefined,
   frozen |-> FALSE, bound |-> FALSE, id |-> 0]

NullV == [Obj(<<>>) EXCEPT !.kind = "null"]
ZeroV == [Obj(<<>>) EXCEPT !.kind = "zero"]

\* `!newObj` (line 116), `!this.generatedSchema` (line 162)
IsFalsy(v) == v.kind \in {"null", "zero"}

(***************************************************************************)
(* Hook functions, by identity.  kind is what the function does:           *)
(*   append      returns a replacement of its first argument (marked with  *)
(*               its id, so that the order of application shows)           *)
(*   null, zero  returns null, 0                                           *)
(*   throw       throws                                                    *)
(*   nest        returns this.applyHooks(build, target, obj)               *)
(*   write       build.a = 1 on its second argument, returns obj;          *)
(*               strict says whether the function is strict-mode code      *)
(*   writeB      build.b = build.a + 1 on its second argument, returns obj *)
(*   setA        obj.a = 1 on its first argument, returns obj              *)
(*   setB        obj.b = obj.a + 1 on its first argument, returns obj      *)
(*   register    this.hook(target, h1), returns obj                        *)
(***************************************************************************)
HookFn(id) ==
  CASE id = 1 -> [kind |-> "append", target |-> "", strict |-> FALSE, name |-> "h1"]
    [] id = 2 -> [kind |-> "append", target |-> "", strict |-> FALSE, name |-> ""]
    [] id = 3 -> [kind |-> "null", target |-> "", strict |-> FALSE, name |-> "h3"]
    [] id = 4 -> [kind |-> "zero", target |-> "", strict |-> FALSE, name |-> ""]
    [] id = 5 -> [kind |-> "nest", target |-> "field", strict |-> FALSE, name |-> "h5"]
    [] id = 6 -> [kind |-> "write", target |-> "", strict |-> TRUE, name |-> "h6"]
    [] id = 7 -> [kind |-> "write", target |-> "", strict |-> FALSE, name |-> "h7"]
    [] id = 8 -> [kind |-> "throw", target |-> "", strict |-> FALSE, name |-> "h8"]
    [] id = 9 -> [kind |-> "setA", target |-> "", strict |-> TRUE, name |-> "h9"]
    [] id = 10 -> [kind |-> "setB", target |-> "", strict |-> TRUE, name |-> "h10"]
    [] id = 11 -> [kind |-> "writeB", target |-> "", strict |-> TRUE, name |-> "h11"]
    [] id = 12 -> [kind |-> "register", target |-> "GraphQLSchema", strict |-> FALSE,
                   name |-> "h12"]
    [] id = 13 -> [kind |-> "nest", target |-> "GraphQLSchema", strict |-> FALSE,
                   name |-> "h13"]
    [] id = 14 -> [kind |-> "nest", target |-> "nosuch", strict |-> FALSE, name |-> "h14"]

HookIds == 1..14

\* The function a hook of kind register registers
Registers(id) == 1

\* One entry of the event log of a method call: what happened (ev), in which
\* phase or on which event (name), to which function (id), with which value
\* (val) and which `build` argument (ctx), at which depth or position (n).
Ev(ev, name, id, val, ctx, n) ==
  [ev |-> ev, name |-> name, id |-> id, val |-> val, ctx |-> ctx, n |-> n]


\* What a call produced: the builder's fields it may have changed (b), how it
\* ended (outcome: "ok" or the error thrown), the value returned, and the object
\* passed as `build`, which hooks may have written to.
Res(b, outcome, value, build) ==
  [b |-> b, outcome |-> outcome, value |-> value, build |-> build]

\* build.a = 1 in a hook: a TypeError on null, a TypeError (strict mode code) or
\* nothing at all (sloppy mode code) on a frozen object.
WriteBuild(b, build, strict, obj) ==
  IF build.kind # "obj" THEN Res(b, "TypeError", NullV, build)
  ELSE IF build.frozen
    THEN (IF strict THEN Res(b, "TypeError", NullV, build) ELSE Res(b, "ok", obj, build))
    ELSE Res(b, "ok", obj, [build EXCEPT !.a = 1])

\* build.b = build.a + 1 in a hook: reading a property of null is a TypeError
WriteBuildB(b, build, strict, obj) ==
  IF build.kind # "obj" THEN Res(b, "TypeError", NullV, build)
  ELSE IF build.frozen
    THEN (IF strict THEN Res(b, "TypeError", NullV, build) ELSE Res(b, "ok", obj, build))
    ELSE Res(b, "ok", obj, [build EXCEPT !.b = PlusOne(build.a)])

\* obj.a = 1; return obj  and  obj.b = obj.a + 1; return obj  in a hook, obj
\* being the object it was called with (never a falsy value: line 116)
SetOnValue(b, build, strict, obj, new) ==
  IF obj.frozen
    THEN (IF strict THEN Res(b, "TypeError", NullV, build) ELSE Res(b, "ok", obj, build))
    ELSE Res(b, "ok", new, build)

\* this.hooks[hookName].push(fn), line 92
PushFront(list, fn) == <<fn>> \o list
Push(list, fn) == Append(list, fn)

\* The name hook() gives a function, lines 86-91
Decorate(dn, plugin, hookName, fn) ==
  IF plugin # "" /\ dn[fn] = <<>>
    THEN [dn EXCEPT ![fn] = <<plugin, hookName,
                               IF HookFn(fn).name # "" THEN HookFn(fn).name ELSE "anonymous">>]
    ELSE dn

\* hook(hookName, fn), lines 82-93
hook(b, plugin, hookName, fn) ==
  CASE Lookup(b.hooks, hookName) = "undefined" -> Res(b, "UnknownPhase", NullV, NullV)
    [] Lookup(b.hooks, hookName) = "inherited" ->
         Res([b EXCEPT !.displayName = Decorate(@, plugin, hookName, fn)],
             "TypeError", NullV, NullV)
    [] Lookup(b.hooks, hookName) = "array" ->
         Res([b EXCEPT !.displayName = Decorate(@, plugin, hookName, fn),
                       !.hooks[hookName] = Push(@, fn),
                       !.regOrder[hookName] = Append(@, fn)], "ok", NullV, NullV)

\* A hook that called this.hook(...) (r: how that call ended) returns obj
Registering(r, obj, build) ==
  IF r.outcome = "ok" THEN Res(r.b, "ok", obj, build)
  ELSE Res(r.b, r.outcome, NullV, build)

RECURSIVE applyHooks(_, _, _, _, _)
RECURSIVE RunHooks(_, _, _, _, _, _)

\* hook(newObj, build, context) of line 115, by the kind of the function
CallHook(b, build, id, obj, fuel) ==
  CASE HookFn(id).kind = "append" ->
         Res(b, "ok", [obj EXCEPT !.kind = "obj", !.trail = Append(@, id),
                                  !.frozen = FALSE, !.bound = FALSE, !.id = 0], build)
    [] HookFn(id).kind = "null" -> Res(b, "ok", NullV, build)
    [] HookFn(id).kind = "zero" -> Res(b, "ok", ZeroV, build)
    [] HookFn(id).kind = "throw" -> Res(b, "HookThrew", NullV, build)
    [] HookFn(id).kind = "write" -> WriteBuild(b, build, HookFn(id).strict, obj)
    [] HookFn(id).kind = "writeB" -> WriteBuildB(b, build, HookFn(id).strict, obj)
    [] HookFn(id).kind = "setA" ->
         SetOnValue(b, build, HookFn(id).strict, obj, [obj EXCEPT !.a = 1])
    [] HookFn(id).kind = "setB" ->
         SetOnValue(b, build, HookFn(id).strict, obj, [obj EXCEPT !.b = PlusOne(obj.a)])
    [] HookFn(id).kind = "register" ->
         Registering(hook(b, b.currentPluginName, HookFn(id).target, Registers(id)),
                     obj, build)
    [] HookFn(id).kind = "nest" ->
         IF fuel = 0 THEN Res(b, "RangeError", NullV, build)
         ELSE applyHooks(b, build, HookFn(id).target, obj, fuel - 1)

\* `if (!newObj) throw` of lines 116-122
CheckReturnNullOnly(r) ==
  IF r.outcome = "ok" /\ r.value.kind = "null"
    THEN [r EXCEPT !.outcome = "HookReturnedEmpty"]
    ELSE r

CheckReturn(r) ==
  IF r.outcome = "ok" /\ IsFalsy(r.value)
    THEN [r EXCEPT !.outcome = "HookReturnedEmpty"]
    ELSE r

\* this.depth++ and the trace of lines 107-114, before the hook is called
BeforeHook(b, build, hookName, id, newObj) ==
  [b EXCEPT !.depth = @ + 1,
            !.log = Append(@, Ev("call", hookName, id, newObj, build, b.depth + 1))]

\* The builder when the hook has returned or thrown (r): the trace of lines
\* 123-127 and this.depth-- of lines 128-130
HookDone(r, hookName, id) ==
  [r.b EXCEPT !.depth = @ - 1,
              !.log = Append(@, Ev(IF r.outcome = "ok" THEN "ret" ELSE "threw",
                                   hookName, id, r.value, r.build, r.b.depth))]

\* Lines 116-131 when the i-th hook has returned or thrown (r): fail, or go on
\* with the next hook
AfterHook(r, hookName, id, i, fuel) ==
  IF CheckReturn(r).outcome = "ok"
    THEN RunHooks(HookDone(r, hookName, id), r.build, hookName, r.value, i + 1, fuel)
    ELSE Res(HookDone(r, hookName, id), CheckReturn(r).outcome, NullV, r.build)

\* The loop of lines 105-131 from its i-th iteration on.  `for (const hook of
\* hooks)` reads the array's length at every step.
RunHooks(b, build, hookName, newObj, i, fuel) ==
  IF i > Len(b.hooks[hookName]) THEN Res(b, "ok", newObj, build)
  ELSE AfterHook(CallHook(BeforeHook(b, build, hookName, b.hooks[hookName][i], newObj),
                          build, b.hooks[hookName][i], newObj, fuel),
                 hookName, b.hooks[hookName][i], i, fuel)

\* The depth counter around a dispatch: this.depth++ (96), this.depth-- (137)
Enter(d) == d + 1
Leave(d) == d - 1

\* The `finally` of lines 136-138
FinallyOnReturn(r) == IF r.outcome = "ok" THEN [r EXCEPT !.b.depth = Leave(@)] ELSE r

Finally(r) == [r EXCEPT !.b.depth = Leave(@)]

\* Lines 100-135, entered with the depth already raised
Dispatch(b, build, hookName, oldObj, fuel) ==
  CASE Lookup(b.hooks, hookName) = "undefined" -> Res(b, "UnknownPhase", NullV, build)
    [] Lookup(b.hooks, hookName) = "inherited" -> Res(b, "TypeError", NullV, build)
    [] Lookup(b.hooks, hookName) = "array" -> RunHooks(b, build, hookName, oldObj, 1, fuel)

\* applyHooks(build, hookName, oldObj, context, debugStr), lines 95-139
applyHooks(b, build, hookName, oldObj, fuel) ==
  Finally(Dispatch([b EXCEPT !.depth = Enter(@)], build, hookName, oldObj, fuel))

(***************************************************************************)
(* The build: createBuild and buildSchema.                                 *)
(***************************************************************************)
\* makeNewBuild(this) of ./makeNewBuild: the seed of the build object
makeNewBuild == Obj(<<>>)

\* bindAll(build, <its function-valued keys>) of ./utils, lines 152-155
bindAll(build) == [build EXCEPT !.bound = TRUE]

\* Object.freeze(build), line 156
FreezeNot(build) == build
Freeze(build) == [build EXCEPT !.frozen = TRUE]

\* The builder with the freeze of `build` added to its trace
Frozen(b, build) ==
  [b EXCEPT !.log = Append(@, Ev("freeze", "build", 0, build, build, b.depth))]

\* `return build` of line 158, when the init dispatch has ended (r2)
ReturnBuild(r2) ==
  IF r2.outcome # "ok" THEN Res(r2.b, r2.outcome, NullV, r2.build)
  ELSE Res(r2.b, "ok", r2.build, r2.build)

\* Lines 151-158, when the build dispatch has ended (r1)
Finalise(r1, fuel) ==
  IF r1.outcome # "ok" THEN Res(r1.b, r1.outcome, NullV, NullV)
  ELSE ReturnBuild(applyHooks(Frozen(r1.b, Freeze(bindAll(r1.value))),
                              Freeze(bindAll(r1.value)), "init", Obj(<<>>), fuel))

\* createBuild(), lines 149-159
createBuildOnce(b, fuel) ==
  IF b.nextId = 1 THEN Finalise(applyHooks(b, NullV, "build", makeNewBuild, fuel), fuel)
  ELSE Res(Frozen(b, Freeze(bindAll(makeNewBuild))), "ok",
           Freeze(bindAll(makeNewBuild)), Freeze(bindAll(makeNewBuild)))

createBuildSeedAsContext(b, fuel) ==
  Finalise(applyHooks(b, makeNewBuild, "build", NullV, fuel), fuel)

createBuild(b, fuel) == Finalise(applyHooks(b, NullV, "build", makeNewBuild, fuel), fuel)

\* The object constructed from the spec the GraphQLSchema dispatch returned (r)
Construct(r) ==
  IF r.outcome # "ok" THEN Res(r.b, r.outcome, NullV, r.build)
  ELSE Res([r.b EXCEPT !.nextId = @ + 1,
                       !.log = Append(@, Ev("construct", "GraphQLSchema", r.b.nextId,
                                            [r.value EXCEPT !.id = r.b.nextId],
                                            r.build, r.b.depth))],
           "ok", [r.value EXCEPT !.id = r.b.nextId], r.build)

\* build.buildObjectWithHooks(GraphQLSchema, {}) of ./makeNewBuild: dispatches
\* the GraphQLSchema phase over a new spec with the frozen build as `build`,
\* and constructs a new object from the result.
buildObjectWithHooks(b, build, fuel) ==
  Construct(applyHooks(b, build, "GraphQLSchema", Obj(<<>>), fuel))

\* The assignment to this.generatedSchema of line 164, when
\* buildObjectWithHooks has ended (s)
Cache(s) ==
  IF s.outcome # "ok" THEN Res(s.b, s.outcome, NullV, s.build)
  ELSE Res([s.b EXCEPT !.generatedSchema = s.value], "ok", s.value, s.build)

\* Line 164, when createBuild has ended (c)
BuildArtifact(c, fuel) ==
  IF c.outcome # "ok" THEN Res(c.b, c.outcome, NullV, c.build)
  ELSE Cache(buildObjectWithHooks(c.b, c.value, fuel))

\* lines 163-164
Rebuild(b, fuel) == BuildArtifact(createBuild(b, fuel), fuel)

\* buildSchema(), lines 161-167
buildSchemaAlways(b, fuel) == Rebuild(b, fuel)

buildSchema(b, fuel) ==
  IF IsFalsy(b.generatedSchema)
    THEN Rebuild(b, fuel)
    ELSE Res(b, "ok", b.generatedSchema, NullV)

(***************************************************************************)
(* The watch controller.                                                   *)
(***************************************************************************)
\* What a watcher's listen function does with the trigger it is given: keep
\* it for later ("good") or call it before returning ("sync").
WatcherKind(fn) == IF fn = 2 THEN "sync" ELSE "good"

\* this.emit("schema", schema): every listener of the list, in order
EmitFirstOnly(b, ls, schema) ==
  [b EXCEPT !.log = @ \o [i \in 1..(IF Len(ls) > 0 THEN 1 ELSE 0) |->
                             Ev("notify", "schema", ls[i], schema, NullV, i)]]

Emit(b, ls, schema) ==
  [b EXCEPT !.log = @ \o [i \in 1..Len(ls) |-> Ev("notify", "schema", ls[i], schema, NullV, i)]]

\* this.emit("schema", this.buildSchema()) of lines 180 and 193, when
\* buildSchema has ended (s)
EmitBuiltOrNot(s, ls) == Res(Emit(s.b, ls, s.value), s.outcome, NullV, s.build)

EmitBuilt(s, ls) ==
  IF s.outcome # "ok" THEN s
  ELSE Res(Emit(s.b, ls, s.value), "ok", NullV, s.build)

\* this.generatedSchema = null, line 178
Invalidate(b) ==
  [b EXCEPT !.generatedSchema = NullV,
            !.log = Append(@, Ev("invalidate", "", 0, NullV, NullV, 0))]

\* The body of the triggerChange closure, lines 176-181 (its `changed = true`
\* is read by the caller in watchSchema); ls is the "schema" listener list.
triggerChangeBody(b, ls, fuel) == EmitBuilt(buildSchema(Invalidate(b), fuel), ls)

\* `if (changed === true) throw` of lines 187-191, reached when fn returned
CheckChangedNever(outcome, changed) == outcome
CheckChanged(outcome, changed) ==
  IF outcome = "ok" /\ changed THEN "SynchronousChangeDuringSubscribe" ELSE outcome

\* fn(this.triggerChange) of line 186 for the i-th watcher, of kind `kind`
Listen(b, kind, ls, t, i, fuel) ==
  IF kind = "sync"
    THEN triggerChangeBody([b EXCEPT !.log = Append(@, Ev("listen", "", i, NullV, NullV, t))],
                           ls, fuel)
    ELSE Res([b EXCEPT !.log = Append(@, Ev("listen", "", i, NullV, NullV, t))],
             "ok", NullV, NullV)

RECURSIVE ListenAll(_, _, _, _, _, _, _)

\* Lines 187-192 when the i-th watcher's listen has ended (r): fail, or go on
\* with the next watcher
AfterListen(r, ws, ls, t, i, lst, fuel) ==
  IF CheckChanged(r.outcome, WatcherKind(ws[i]) = "sync") = "ok"
    THEN ListenAll(r.b, ws, ls, t, i + 1, lst, fuel)
    ELSE [b |-> r.b, outcome |-> CheckChanged(r.outcome, WatcherKind(ws[i]) = "sync"),
          value |-> NullV, build |-> NullV, listening |-> lst]

\* this.watchers.forEach(...) of lines 185-192 from the i-th watcher on; t is
\* this.triggerChange and lst the set of <<watcher, trigger>> listening.
ListenAll(b, ws, ls, t, i, lst, fuel) ==
  IF i > Len(ws)
    THEN [b |-> b, outcome |-> "ok", value |-> NullV, build |-> NullV, listening |-> lst]
    ELSE AfterListen(Listen(b, WatcherKind(ws[i]), ls, t, i, fuel),
                     ws, ls, t, i, lst \cup {<<i, t>>}, fuel)

\* Line 193, when the watchers have been called (w)
FirstNotificationNone(w, ls, fuel) ==
  IF w.outcome # "ok" THEN w
  ELSE [listening |-> w.listening] @@ buildSchema(w.b, fuel)

FirstNotification(w, ls, fuel) ==
  IF w.outcome # "ok" THEN w
  ELSE [listening |-> w.listening] @@ EmitBuilt(buildSchema(w.b, fuel), ls)

\* this.on("schema", listener), line 183
Subscribe(ls, listener) == IF listener # 0 THEN Append(ls, listener) ELSE ls

\* The closure watchSchema creates at line 176: a new function every time
NewTrigger(old, fresh) == fresh

\* Lines 182-193 of watchSchema: ls is the listener list after line 183
watchSchema(b, ws, ls, t, lst, fuel) ==
  FirstNotification(ListenAll(b, ws, ls, t, 1, lst, fuel), ls, fuel)

\* this.removeEventListener("schema", listener), line 204: EventEmitter has
\* removeListener and off, and no removeEventListener, so the call throws.
removeEventListener(ls, listener) == [outcome |-> "TypeError", listeners |-> ls]

\* this.unwatchers.forEach(fn => fn(this.triggerChange)), lines 206-208
UnlistenAll(b, uws, t) ==
  [b EXCEPT !.log = @ \o [i \in 1..Len(uws) |-> Ev("unlisten", "", i, NullV, NullV, t)]]

(***************************************************************************)
(* The builder as the operators above see it, and the record of a call.    *)
(***************************************************************************)
Builder ==
  [hooks |-> hooks, displayName |-> displayName, depth |-> depth, regOrder |-> regOrder,
   generatedSchema |-> generatedSchema, nextId |-> nextId,
   currentPluginName |-> currentPluginName, log |-> <<>>]

Last(op, name, fn, arg, r) ==
  [op |-> op, name |-> name, fn |-> fn, arg |-> arg, outcome |-> r.outcome,
   value |-> r.value, build |-> r.build, log |-> r.b.log]

Registered == LET n[S \in SUBSET Phases] ==
                    IF S = {} THEN 0
                    ELSE LET p == CHOOSE q \in S : TRUE IN Len(hooks[p]) + n[S \ {p}]
              IN n[Phases]

Init ==
  /\ hooks = [p \in Phases |-> <<>>]
  /\ displayName = [f \in HookIds |-> <<>>]
  /\ currentPluginName = ""
  /\ depth = -1
  /\ watchers = <<>>
  /\ unwatchers = <<>>
  /\ watching = FALSE
  /\ explicitSchemaListener = 0
  /\ triggerChange = 0
  /\ generatedSchema = NullV
  /\ listeners = <<>>
  /\ nextId = 1
  /\ nextTrigger = 1
  /\ listening = {}
  /\ sessions = <<>>
  /\ regOrder = [p \in Phases |-> <<>>]
  /\ last = Last("new", "", 0, NullV, Res(Builder, "ok", NullV, NullV))

watchVars == <<watchers, unwatchers, watching, explicitSchemaListener, triggerChange,
               listeners, nextTrigger, listening, sessions>>

\* _setPluginName(name), lines 70-72
SetPluginName(name) ==
  /\ currentPluginName # name
  /\ currentPluginName' = name
  /\ last' = Last("_setPluginName", name, 0, NullV, Res(Builder, "ok", NullV, NullV))
  /\ UNCHANGED <<hooks, displayName, depth, regOrder, generatedSchema, nextId, watchVars>>

\* What a call (r) leaves in the builder's fields that dispatches and builds
\* change, and the record of the call
Commit(op, name, fn, arg, r) ==
  /\ hooks' = r.b.hooks
  /\ displayName' = r.b.displayName
  /\ depth' = r.b.depth
  /\ regOrder' = r.b.regOrder
  /\ generatedSchema' = r.b.generatedSchema
  /\ nextId' = r.b.nextId
  /\ last' = Last(op, name, fn, arg, r)

\* A call that fails or returns without touching a field
Only(op, fn, outcome) ==
  last' = Last(op, "", fn, NullV, Res(Builder, outcome, NullV, NullV))

\* A plugin calls builder.hook(hookName, fn)
Hook(hookName, fn) ==
  /\ Registered < MaxHooks
  /\ Commit("hook", hookName, fn, NullV, hook(Builder, currentPluginName, hookName, fn))
  /\ UNCHANGED <<currentPluginName, watchVars>>

\* A caller dispatches a phase: builder.applyHooks(build, hookName, oldObj)
ApplyHooks(build, hookName, oldObj) ==
  /\ Registered <= MaxHooks
  /\ Commit("applyHooks", hookName, 0, oldObj,
            applyHooks(Builder, build, hookName, oldObj, MaxNest))
  /\ UNCHANGED <<currentPluginName, watchVars>>

\* Whether a build started now may still construct an artifact
MayBuild == ~IsFalsy(generatedSchema) \/ nextId <= MaxArtifacts

\* builder.createBuild()
CreateBuild ==
  /\ Commit("createBuild", "", 0, NullV, createBuild(Builder, MaxNest))
  /\ UNCHANGED <<currentPluginName, watchVars>>

\* builder.buildSchema(); last.arg is the cache as the call found it
BuildSchema ==
  /\ MayBuild
  /\ Commit("buildSchema", "", 0, generatedSchema, buildSchema(Builder, MaxNest))
  /\ UNCHANGED <<currentPluginName, watchVars>>

\* The caller of createBuild() writes to the build object it got: build.a = 1.
\* last.arg is the object before the write and last.build the object after it.
WriteContext(strict) ==
  /\ last.op \in {"createBuild", "write"}
  /\ last.build.kind = "obj"
  /\ last' = Last("write", "", 0, last.build, WriteBuild(Builder, last.build, strict, NullV))
  /\ UNCHANGED <<hooks, displayName, depth, regOrder, generatedSchema, nextId,
                 currentPluginName, watchVars>>

\* addWatcher(listen, unlisten), lines 141-147; 0 is a missing function
AddWatcher(listen, unlisten) ==
  /\ Len(watchers) < MaxWatchers
  /\ IF listen = 0 \/ unlisten = 0
       THEN /\ UNCHANGED <<watchers, unwatchers>>
            /\ Only("addWatcher", listen, "MissingFunction")
       ELSE /\ watchers' = Append(watchers, listen)
            /\ unwatchers' = Append(unwatchers, unlisten)
            /\ Only("addWatcher", listen, "ok")
  /\ UNCHANGED <<hooks, displayName, depth, regOrder, generatedSchema, nextId,
                 currentPluginName, watching, explicitSchemaListener, triggerChange,
                 listeners, nextTrigger, listening, sessions>>

\* A consumer that has not subscribed yet subscribes to the notifications
\* itself: builder.on("schema", l)
On(listener) ==
  /\ \A i \in 1..Len(listeners) : listeners[i] # listener
  /\ listeners' = Subscribe(listeners, listener)
  /\ Only("on", listener, "ok")
  /\ UNCHANGED <<hooks, displayName, depth, regOrder, generatedSchema, nextId,
                 currentPluginName, watchers, unwatchers, watching,
                 explicitSchemaListener, triggerChange, nextTrigger, listening, sessions>>

\* The fields watchSchema leaves when it got past line 172 (w: how it ended)
Watching(w, t, listener) ==
  /\ watching' = TRUE
  /\ explicitSchemaListener' = listener
  /\ triggerChange' = t
  /\ nextTrigger' = nextTrigger + 1
  /\ listeners' = Subscribe(listeners, listener)
  /\ listening' = w.listening
  /\ sessions' = Append(sessions, <<t, listener>>)
  /\ Commit("watchSchema", "", t, NullV, w)

\* watchSchema(listener), lines 169-194; last.fn is the trigger of the session
WatchSchema(listener) ==
  IF watching
    THEN /\ Only("watchSchema", 0, "AlreadyWatching")
         /\ UNCHANGED <<hooks, displayName, depth, regOrder, generatedSchema, nextId,
                        currentPluginName, watchVars>>
    ELSE /\ nextTrigger <= MaxSessions
         /\ nextId <= MaxArtifacts
         /\ Watching(watchSchema(Builder, watchers, Subscribe(listeners, listener),
                                 NewTrigger(triggerChange, nextTrigger), listening, MaxNest),
                     NewTrigger(triggerChange, nextTrigger), listener)
         /\ UNCHANGED <<currentPluginName, watchers, unwatchers>>

\* unwatchSchema(), lines 196-210; last.fn is the listener of the session
UnwatchSchema ==
  /\ IF ~watching
       THEN /\ Only("unwatchSchema", 0, "NotWatching")
            /\ UNCHANGED <<watching, explicitSchemaListener, triggerChange, listeners,
                           listening>>
       ELSE /\ watching' = FALSE
            /\ explicitSchemaListener' = 0
            /\ IF explicitSchemaListener # 0
                 THEN /\ listeners' =
                           removeEventListener(listeners, explicitSchemaListener).listeners
                      /\ Only("unwatchSchema", explicitSchemaListener,
                              removeEventListener(listeners, explicitSchemaListener).outcome)
                      /\ UNCHANGED <<triggerChange, listening>>
                 ELSE /\ last' = Last("unwatchSchema", "", 0, NullV,
                                      Res(UnlistenAll(Builder, unwatchers, triggerChange),
                                          "ok", NullV, NullV))
                      /\ listening' = listening \ {<<i, triggerChange>> : i \in 1..Len(unwatchers)}
                      /\ triggerChange' = 0
                      /\ UNCHANGED listeners
  /\ UNCHANGED <<hooks, displayName, depth, regOrder, generatedSchema, nextId,
                 currentPluginName, watchers, unwatchers, nextTrigger, sessions>>

\* A watcher that is listening with the trigger t calls it: t()
TriggerChange(t) ==
  /\ \E i \in 1..Len(watchers) : <<i, t>> \in listening
  /\ nextId <= MaxArtifacts
  /\ Commit("triggerChange", "", t, generatedSchema,
            triggerChangeBody(Builder, listeners, MaxNest))
  /\ UNCHANGED <<currentPluginName, watchVars>>

\* A watcher that was given the trigger t in a session that unwatchSchema has
\* ended, and that kept the reference after its unlisten was called, calls it:
\* t().  The closure is the one of lines 176-181, whatever became of
\* this.triggerChange.
StaleTriggerChange(t) ==
  /\ \E k \in 1..Len(sessions) : sessions[k][1] = t
  /\ ~watching /\ triggerChange = 0
  /\ Len(watchers) > 0
  /\ \A i \in 1..Len(watchers) : <<i, t>> \notin listening
  /\ nextId <= MaxArtifacts
  /\ Commit("staleTrigger", "", t, generatedSchema,
            triggerChangeBody(Builder, listeners, MaxNest))
  /\ UNCHANGED <<currentPluginName, watchVars>>

(***************************************************************************)
(* The registry and the dispatcher on their own: plugins register hooks,   *)
(* callers dispatch phases.                                                *)
(***************************************************************************)
PluginNames == {"", "p"}
HookNames == {"GraphQLSchema", "field", "nosuch", "constructor"}
HookInputs ==
  ({"GraphQLSchema"} \X {1, 2, 4, 5}) \cup ({"field"} \X {1, 4})
    \cup ({"nosuch", "constructor"} \X {1})
Seeds == {Obj(<<>>), NullV}

NextHooks ==
  \/ \E name \in PluginNames : SetPluginName(name)
  \/ \E in \in HookInputs : Hook(in[1], in[2])
  \/ \E hookName \in HookNames, oldObj \in Seeds : ApplyHooks(NullV, hookName, oldObj)

SpecHooks == Init /\ [][NextHooks]_vars

(***************************************************************************)
(* Re-entrant dispatch: hooks that dispatch a phase themselves, register a *)
(* hook while a dispatch is running, throw, or return 0.                   *)
(***************************************************************************)
ReentrantHookInputs ==
  ({"GraphQLSchema"} \X {1, 5, 8, 12, 14}) \cup ({"field"} \X {4, 12, 13})

NextReentrant ==
  \/ \E in \in ReentrantHookInputs : Hook(in[1], in[2])
  \/ \E hookName \in {"GraphQLSchema", "field", "nosuch"} :
       ApplyHooks(NullV, hookName, Obj(<<>>))

SpecReentrant == Init /\ [][NextReentrant]_vars

(***************************************************************************)
(* The build on its own: plugins register hooks of the build, init and     *)
(* GraphQLSchema phases, callers create builds and build the schema.       *)
(***************************************************************************)
BuildHookInputs ==
  ({"build"} \X {1, 2, 6, 9, 10, 11}) \cup ({"init"} \X {6, 7})
    \cup ({"GraphQLSchema"} \X {1, 5, 7}) \cup ({"field"} \X {7})

NextBuild ==
  \/ \E in \in BuildHookInputs : Hook(in[1], in[2])
  \/ CreateBuild
  \/ BuildSchema
  \/ \E strict \in BOOLEAN : WriteContext(strict)

SpecBuild == Init /\ [][NextBuild]_vars

(***************************************************************************)
(* The watch controller with the build under it: watchers are added, a      *)
(* session is started and stopped, watchers trigger changes, consumers      *)
(* subscribe and build, and a plugin may register a hook that fails.        *)
(***************************************************************************)
WatchHookInputs == {<<"init", 4>>}
WatcherInputs == {<<1, 1>>, <<2, 2>>, <<0, 1>>, <<1, 0>>}
SessionListeners == {0, 1}
OtherListeners == {2}

NextWatch ==
  \/ \E in \in WatchHookInputs : Registered = 0 /\ Hook(in[1], in[2])
  \/ \E in \in WatcherInputs : AddWatcher(in[1], in[2])
  \/ \E l \in OtherListeners : On(l)
  \/ \E l \in SessionListeners : WatchSchema(l)
  \/ UnwatchSchema
  \/ \E t \in 1..MaxSessions : TriggerChange(t)
  \/ BuildSchema

SpecWatch == Init /\ [][NextWatch]_vars


(***************************************************************************)
(* Rebuilds: plugins register hooks of the build, init and GraphQLSchema   *)
(* phases that succeed, watchers are registered before the first session,  *)
(* sessions are watched and ended, and watchers call the triggers they     *)
(* were given, during the session and after it.                            *)
(***************************************************************************)
RebuildHookInputs == {<<"build", 1>>, <<"build", 9>>, <<"init", 7>>, <<"GraphQLSchema", 1>>}

NextRebuild ==
  \/ \E in \in RebuildHookInputs : Hook(in[1], in[2])
  \/ sessions = <<>> /\ AddWatcher(1, 1)
  \/ On(2)
  \/ WatchSchema(0)
  \/ UnwatchSchema
  \/ \E t \in 1..MaxSessions : TriggerChange(t)
  \/ \E t \in 1..MaxSessions : StaleTriggerChange(t)
  \/ BuildSchema

SpecRebuild == Init /\ [][NextRebuild]_vars

(***************************************************************************)
(* Failing builds: a hook of the build, init or GraphQLSchema phase that   *)
(* returns 0, throws or returns null is registered, before or after an     *)
(* artifact was built.                                                     *)
(***************************************************************************)
FailureHookInputs == {<<"build", 4>>, <<"init", 8>>, <<"GraphQLSchema", 3>>}

NextFailure ==
  \/ \E in \in FailureHookInputs : Registered = 0 /\ Hook(in[1], in[2])
  \/ \E in \in {<<1, 1>>, <<2, 2>>} : AddWatcher(in[1], in[2])
  \/ On(2)
  \/ \E l \in SessionListeners : WatchSchema(l)
  \/ UnwatchSchema
  \/ \E t \in 1..MaxSessions : TriggerChange(t)
  \/ BuildSchema

SpecFailure == Init /\ [][NextFailure]_vars

(***************************************************************************)
(* Properties of the registry and the dispatcher.                          *)
(***************************************************************************)
\* The hooks the last call ran itself (not those of nested dispatches), and what
\* they returned: a top-level dispatch runs its hooks two levels above rest.
TopCalls == SelectSeq(last.log, LAMBDA e : e.ev = "call" /\ e.n = depth + 2)
TopRets == SelectSeq(last.log, LAMBDA e : e.ev = "ret" /\ e.n = depth + 2)

AllAppend(hs) == \A i \in 1..Len(hs) : HookFn(hs[i]).kind = "append"

\* C1: a dispatch of a declared phase calls the phase's hooks in the order they
\* were registered, each at most once and none out of turn, and gives each the
\* value the previous one returned (the first one the initial value); a dispatch
\* that returns has called every hook exactly once and returns the last hook's
\* return value, which is hn(...h1(v)), and v itself when the phase has no hook.
C1_RegistrationOrder ==
  (last.op = "applyHooks" /\ last.name \in Phases) =>
    LET hs == regOrder[last.name]
        k == Len(TopCalls)
    IN /\ k <= Len(hs)
       /\ \A i \in 1..k : TopCalls[i].id = hs[i]
       /\ \A i \in 1..k : TopCalls[i].val = IF i = 1 THEN last.arg ELSE TopRets[i - 1].val
       /\ \A i \in 1..Len(TopRets) : TopRets[i].id = hs[i]
       /\ last.outcome = "ok" =>
            /\ k = Len(hs)
            /\ Len(TopRets) = Len(hs)
            /\ last.value = IF k = 0 THEN last.arg ELSE TopRets[k].val
            /\ AllAppend(hs) => last.value.trail = last.arg.trail \o hs

\* Two different hooks, the first registered under a plugin name and the second
\* without one, have run in that order.
C1_Witness ==
  /\ last.op = "applyHooks" /\ last.name \in Phases /\ last.outcome = "ok"
  /\ Len(regOrder[last.name]) >= 2
  /\ regOrder[last.name][1] # regOrder[last.name][2]
  /\ displayName[regOrder[last.name][1]] # <<>>
  /\ displayName[regOrder[last.name][2]] = <<>>
  /\ last.value.trail = regOrder[last.name]

\* The entries of the log where a hook returned a falsy value
FalsyReturns == {i \in 1..Len(last.log) : last.log[i].ev = "ret" /\ last.log[i].val.kind # "obj"}

\* C2: when a hook returns a falsy value the dispatch fails with
\* HookReturnedEmpty, no hook runs after it (in its phase or in any enclosing
\* one), and every enclosing dispatch passes the failure on to the outermost
\* caller.
C2_FalsyReturnAborts ==
  last.op = "applyHooks" =>
    \A i \in FalsyReturns :
      /\ last.outcome = "HookReturnedEmpty"
      /\ \A j \in (i + 1)..Len(last.log) : last.log[j].ev = "threw"

\* A hook of a nested dispatch returned 0, and a hook registered after it or
\* after the enclosing hook was left out.
C2_Witness ==
  /\ last.op = "applyHooks" /\ last.outcome = "HookReturnedEmpty"
  /\ \E i \in FalsyReturns : last.log[i].n = depth + 4 /\ last.log[i].val.kind = "zero"
  /\ Len(SelectSeq(last.log, LAMBDA e : e.ev = "call")) = 2
  /\ Len(regOrder["GraphQLSchema"]) + Len(regOrder["field"]) = 3

NoHookRan(log) == \A i \in 1..Len(log) : log[i].ev # "call"

\* C3: hook() and applyHooks() of a name that is not a declared phase fail with
\* UnknownPhase, run no hook and leave every phase's hook list as it was.
C3_UndeclaredAlwaysUnknownPhase ==
  [][(last'.op \in {"hook", "applyHooks"} /\ last'.name \notin Phases) =>
       (last'.outcome = "UnknownPhase" /\ NoHookRan(last'.log) /\ hooks' = hooks)]_vars

\* C3, for the names that Object.prototype does not define: the same.
C3_UndeclaredUninherited ==
  [][(last'.op \in {"hook", "applyHooks"} /\ last'.name \notin Phases \cup InheritedNames) =>
       (last'.outcome = "UnknownPhase" /\ NoHookRan(last'.log) /\ hooks' = hooks)]_vars

\* C3, whatever the undeclared name: the call fails, runs no hook and leaves the
\* hook lists as they were.
C3_UndeclaredFails ==
  [][(last'.op \in {"hook", "applyHooks"} /\ last'.name \notin Phases) =>
       (last'.outcome # "ok" /\ NoHookRan(last'.log) /\ hooks' = hooks)]_vars


(***************************************************************************)
(* Properties of the build.                                                *)
(***************************************************************************)
FreezeAt == {i \in 1..Len(last.log) : last.log[i].ev = "freeze"}

\* The value the `build` dispatch logged before position f returned
BuildPhaseValue(f) ==
  LET rets == SelectSeq(SubSeq(last.log, 1, f - 1),
                        LAMBDA e : e.ev = "ret" /\ e.name = "build" /\ e.n = depth + 2)
  IN IF Len(rets) = 0 THEN makeNewBuild ELSE rets[Len(rets)].val

\* C5: createBuild freezes the build object when every `build` hook has
\* returned and before any `init` hook runs; the frozen object is the value the
\* build phase produced (its function members bound); every later hook call
\* (init, artifact construction) finds and leaves it exactly so, createBuild
\* returns it, and a later write by the caller does not change it.
C5_FrozenAfterBuildPhase ==
  /\ last.op \in {"createBuild", "buildSchema"} =>
       \A f \in FreezeAt :
         LET ctx == last.log[f].val IN
         /\ ctx.frozen
         /\ ctx = [BuildPhaseValue(f) EXCEPT !.frozen = TRUE, !.bound = TRUE]
         /\ Len(SelectSeq(SubSeq(last.log, 1, f - 1),
                          LAMBDA e : e.ev = "ret" /\ e.name = "build" /\ e.n = depth + 2))
              = Len(hooks["build"])
         /\ \A j \in 1..(f - 1) : last.log[j].name # "init"
         /\ \A j \in (f + 1)..Len(last.log) :
              last.log[j].name # "build" /\ last.log[j].ctx = ctx
         /\ (last.op = "createBuild" /\ last.outcome = "ok") => last.value = ctx
  /\ (last.op = "createBuild" /\ last.outcome = "ok") => FreezeAt # {}
  /\ last.op = "write" => last.build = last.arg

\* createBuild has returned a context that two build hooks produced and that
\* an init hook (sloppy-mode code) wrote to after the freeze.
C5_Witness ==
  /\ last.op = "createBuild" /\ last.outcome = "ok"
  /\ Len(hooks["build"]) = 2
  /\ last.value.trail = hooks["build"]
  /\ \E f \in FreezeAt : \E j \in (f + 1)..Len(last.log) :
       last.log[j].ev = "ret" /\ last.log[j].name = "init" /\ HookFn(last.log[j].id).kind = "write"


(***************************************************************************)
(* Properties of the artifact cache and of the watch controller.           *)
(***************************************************************************)
Constructed == SelectSeq(last.log, LAMBDA e : e.ev = "construct")
Invalidated == SelectSeq(last.log, LAMBDA e : e.ev = "invalidate")
Notified == SelectSeq(last.log, LAMBDA e : e.ev = "notify")

\* C4: buildSchema called with an artifact in the cache returns that very
\* artifact, constructs nothing, runs no hook and leaves the cache as it was;
\* a buildSchema that finds the cache empty, and the buildSchema that follows
\* the invalidation in triggerChange, construct exactly one new artifact,
\* return it and leave it in the cache.
C4_CachedUntilInvalidated ==
  /\ (last.op = "buildSchema" /\ last.arg.kind = "obj") =>
       /\ last.outcome = "ok"
       /\ last.value = last.arg
       /\ generatedSchema = last.arg
       /\ last.log = <<>>
  /\ (last.op = "buildSchema" /\ last.arg.kind # "obj" /\ last.outcome = "ok") =>
       /\ Len(Constructed) = 1
       /\ last.value = Constructed[1].val
       /\ generatedSchema = Constructed[1].val
  /\ (last.op = "triggerChange" /\ last.outcome = "ok") =>
       /\ Len(Constructed) = 1
       /\ generatedSchema = Constructed[1].val
       /\ generatedSchema.id # last.arg.id

\* buildSchema has returned from the cache the artifact rebuilt after an
\* invalidation.
C4_Witness ==
  /\ last.op = "buildSchema" /\ last.outcome = "ok"
  /\ last.arg.kind = "obj" /\ last.arg.id = 2
  /\ last.value = last.arg

ActiveTriggers == {p[2] : p \in listening}

\* C6, the two rejections: watchSchema while watching fails with
\* AlreadyWatching and unwatchSchema while idle with NotWatching, and neither
\* changes the state, the trigger, the subscribers or the cache, nor calls a
\* watcher.
C6_Rejections ==
  [][/\ (watching /\ last'.op = "watchSchema") =>
          /\ last'.outcome = "AlreadyWatching" /\ last'.log = <<>>
          /\ UNCHANGED <<watching, explicitSchemaListener, triggerChange, listeners,
                         generatedSchema, listening>>
     /\ (~watching /\ last'.op = "unwatchSchema") =>
          /\ last'.outcome = "NotWatching" /\ last'.log = <<>>
          /\ UNCHANGED <<watching, explicitSchemaListener, triggerChange, listeners,
                         generatedSchema, listening>>]_vars

\* C6: the two rejections as above, so that at no time the watchers are
\* listening with the triggers of two sessions.
C6_OneSessionAtATime ==
  /\ C6_Rejections
  /\ [](Cardinality(ActiveTriggers) <= 1)

\* C7: a triggerChange call that returns has invalidated the cache once (before
\* anything else), constructed exactly one new artifact, called every entry of
\* the "schema" listener list exactly once, in order, with that artifact, and
\* left that artifact in the cache.
C7_OneRebuildOneNotification ==
  (last.op = "triggerChange" /\ last.outcome = "ok") =>
    /\ Len(Invalidated) = 1 /\ last.log[1].ev = "invalidate"
    /\ Len(Constructed) = 1
    /\ Constructed[1].val.id # last.arg.id
    /\ Len(Notified) = Len(listeners)
    /\ \A i \in 1..Len(Notified) :
         Notified[i].id = listeners[i] /\ Notified[i].val = Constructed[1].val
    /\ generatedSchema = Constructed[1].val

\* Two watchers are registered and listening, two listeners are subscribed, and
\* the trigger of the running session was called.
C7_Witness ==
  /\ last.op = "triggerChange" /\ last.outcome = "ok"
  /\ watching /\ last.fn = triggerChange
  /\ Len(watchers) = 2 /\ Cardinality(listening) = 2
  /\ Len(listeners) = 2 /\ Len(Notified) = 2
  /\ last.arg.kind = "obj"

\* The listen calls of the last watchSchema that called the trigger themselves
SyncListens ==
  {i \in 1..Len(last.log) :
     last.log[i].ev = "listen" /\ WatcherKind(watchers[last.log[i].id]) = "sync"}

NoListenAfter(i) == \A j \in (i + 1)..Len(last.log) : last.log[j].ev # "listen"

\* C8 as claimed: when a watcher's listen calls the trigger before it returns,
\* watchSchema fails with SynchronousChangeDuringSubscribe and calls no later
\* watcher's listen.
C8_SyncTriggerAlwaysReported ==
  last.op = "watchSchema" =>
    \A i \in SyncListens :
      last.outcome = "SynchronousChangeDuringSubscribe" /\ NoListenAfter(i)

BuildFailures == {"HookReturnedEmpty", "HookThrew", "TypeError", "RangeError"}

\* C8 amended: when a watcher's listen calls the trigger before it returns,
\* watchSchema fails and calls no later watcher's listen; it fails with
\* SynchronousChangeDuringSubscribe when the trigger returned to listen, and
\* with the failure of the rebuild when the rebuild inside the trigger failed.
C8_SyncTriggerFails ==
  last.op = "watchSchema" =>
    \A i \in SyncListens :
      /\ NoListenAfter(i)
      /\ IF \E j \in (i + 1)..Len(last.log) : last.log[j].ev = "construct"
           THEN last.outcome = "SynchronousChangeDuringSubscribe"
           ELSE last.outcome \in BuildFailures

\* The first of two watchers called the trigger from its listen: watchSchema
\* failed with SynchronousChangeDuringSubscribe and left the second one out.
C8_Witness ==
  /\ last.op = "watchSchema" /\ last.outcome = "SynchronousChangeDuringSubscribe"
  /\ Len(watchers) = 2
  /\ \E i \in SyncListens : last.log[i].id = 1
  /\ Len(SelectSeq(last.log, LAMBDA e : e.ev = "listen")) = 1

Occurrences(seq, x) == Len(SelectSeq(seq, LAMBDA y : y = x))

\* C9: unwatchSchema called while watching completes without error, leaves the
\* builder idle with the session's listener unsubscribed and the trigger
\* reference cleared, and has called every watcher's unlisten exactly once with
\* the trigger its listen was called with in this session.
C9_StopCompletes ==
  [][(watching /\ last'.op = "unwatchSchema") =>
       /\ last'.outcome = "ok"
       /\ ~watching'
       /\ explicitSchemaListener # 0 =>
            Occurrences(listeners', explicitSchemaListener)
              = Occurrences(listeners, explicitSchemaListener) - 1
       /\ Len(last'.log) = Len(unwatchers)
       /\ \A i \in 1..Len(unwatchers) :
            /\ last'.log[i] = Ev("unlisten", "", i, NullV, NullV, triggerChange)
            /\ <<i, triggerChange>> \in listening
       /\ triggerChange' = 0]_vars

\* C10: a watchSchema that succeeds after an earlier session was stopped has
\* called every registered watcher's listen with a trigger that no earlier
\* session had; and in a session whose listener was also the listener of an
\* earlier session, every change notifies that listener exactly once.
C10_SecondSession ==
  /\ (last.op = "watchSchema" /\ last.outcome = "ok" /\ Len(sessions) >= 2) =>
       /\ \A i \in 1..Len(watchers) :
            \E j \in 1..Len(last.log) :
              last.log[j] = Ev("listen", "", i, NullV, NullV, last.fn)
       /\ \A k \in 1..(Len(sessions) - 1) : sessions[k][1] # last.fn
  /\ (/\ last.op = "triggerChange" /\ last.outcome = "ok"
      /\ watching /\ last.fn = triggerChange /\ explicitSchemaListener # 0
      /\ \E k \in 1..(Len(sessions) - 1) : sessions[k][2] = explicitSchemaListener) =>
       Len(SelectSeq(Notified, LAMBDA e : e.id = explicitSchemaListener)) = 1

\* C11: a watchSchema that returns has called every watcher's listen (each with
\* the session's trigger, in order) and only then, without any invalidation,
\* called every entry of the "schema" listener list exactly once, in order, with
\* one artifact: the cached one, with nothing run or constructed, when the cache
\* held one, and otherwise the one artifact it constructed, which it left in
\* the cache.
C11_InitialNotification ==
  [][(last'.op = "watchSchema" /\ last'.outcome = "ok") =>
       LET log == last'.log
           n == Len(watchers)
           m == Len(listeners')
           notes == SelectSeq(log, LAMBDA e : e.ev = "notify")
           made == SelectSeq(log, LAMBDA e : e.ev = "construct")
       IN /\ Len(log) >= n + m
          /\ \A i \in 1..n : log[i] = Ev("listen", "", i, NullV, NullV, last'.fn)
          /\ \A i \in 1..Len(log) : log[i].ev # "invalidate"
          /\ Len(notes) = m
          /\ \A i \in 1..m :
               /\ log[Len(log) - m + i] = notes[i]
               /\ notes[i].id = listeners'[i]
               /\ notes[i].val = generatedSchema'
          /\ IF ~IsFalsy(generatedSchema)
               THEN generatedSchema' = generatedSchema /\ Len(log) = n + m
               ELSE /\ Len(made) = 1
                    /\ generatedSchema' = made[1].val
                    /\ ~IsFalsy(generatedSchema')]_vars

\* watchSchema(l) has returned with two watchers registered and a second
\* listener subscribed, and has delivered the artifact it found in the cache.
C11_Witness ==
  /\ last.op = "watchSchema" /\ last.outcome = "ok"
  /\ Len(watchers) = 2 /\ Len(listeners) = 2
  /\ Len(Notified) = 2 /\ Len(Constructed) = 0
  /\ \A i \in 1..2 : Notified[i].val = generatedSchema /\ Notified[i].val.id = 1


(***************************************************************************)
(* Properties of the build phase's arguments.                              *)
(***************************************************************************)
\* The calls of the `build` phase's hooks in the last createBuild
BuildCalls == SelectSeq(last.log, LAMBDA e : e.ev = "call" /\ e.name = "build")

HasAB(v) == v.kind = "obj" /\ v.frozen /\ v.a = 1 /\ v.b = 2

\* C12 as claimed: createBuild dispatches the build phase with null as the
\* threaded value and the seed as the hooks' build (context) argument, so that
\* with the build hooks h6 (build.a = 1) and h11 (build.b = build.a + 1), which
\* write to that argument, createBuild returns a frozen object with a = 1 and
\* b = 2.
C12_SeedAsContext ==
  last.op = "createBuild" =>
    /\ Len(BuildCalls) >= 1 =>
         BuildCalls[1].val = NullV /\ BuildCalls[1].ctx.kind = "obj"
    /\ (hooks["build"] = <<6, 11>> /\ hooks["init"] = <<>>) =>
         last.outcome = "ok" /\ HasAB(last.value)

\* C12 amended: createBuild dispatches the build phase with the seed as the
\* threaded value and null as the hooks' build argument, so that with the build
\* hooks h9 (obj.a = 1; return obj) and h10 (obj.b = obj.a + 1; return obj),
\* which write to the value they are given, the object createBuild freezes, and
\* returns when no init hook fails, has a = 1 and b = 2.
C12_SeedAsValue ==
  last.op = "createBuild" =>
    /\ Len(BuildCalls) >= 1 => BuildCalls[1].val = makeNewBuild
    /\ \A i \in 1..Len(BuildCalls) : BuildCalls[i].ctx = NullV
    /\ hooks["build"] = <<9, 10>> =>
         /\ FreezeAt # {}
         /\ \A f \in FreezeAt : HasAB(last.log[f].val)
         /\ last.outcome = "ok" => HasAB(last.value)
         /\ hooks["init"] \in {<<>>, <<7>>} => last.outcome = "ok"

\* createBuild has returned the frozen object with a = 1 and b = 2 that the
\* build hooks h9 and h10 made of the seed.
C12_Witness ==
  /\ last.op = "createBuild" /\ last.outcome = "ok"
  /\ hooks["build"] = <<9, 10>>
  /\ HasAB(last.value)
  /\ BuildCalls[1].val = makeNewBuild /\ BuildCalls[2].val.a = 1


(***************************************************************************)
(* Properties of re-entrant dispatch.                                      *)
(***************************************************************************)
\* C13: a dispatch of a phase runs the hooks that were registered on the phase
\* when it began, and no other: a hook that a running hook registers on the
\* phase is not called by the dispatch in flight.
C13_InFlightUnaffected ==
  [][(last'.op = "applyHooks" /\ last'.name \in Phases) =>
       LET top == SelectSeq(last'.log, LAMBDA e : e.ev = "call" /\ e.n = depth' + 2)
           began == hooks[last'.name]
       IN /\ Len(top) <= Len(began)
          /\ \A i \in 1..Len(top) : top[i].id = began[i]
          /\ last'.outcome = "ok" => Len(top) = Len(began)]_vars

RECURSIVE Nested(_, _, _)

\* Whether the hook calls of a log, from its i-th entry on, nest properly above
\* the depths of the hooks still running (stack, innermost first; at rest the
\* depth is d0): a hook is called two levels above the hook that is running,
\* and returns or throws at the level it was called at, after every hook called
\* in it has.
Nested(log, i, stack) ==
  IF i > Len(log) THEN stack = <<>>
  ELSE IF log[i].ev = "call"
    THEN /\ log[i].n = (IF stack = <<>> THEN -1 ELSE stack[1].n) + 2
         /\ Nested(log, i + 1, <<log[i]>> \o stack)
    ELSE /\ stack # <<>>
         /\ log[i].n = stack[1].n /\ log[i].id = stack[1].id
         /\ Nested(log, i + 1, Tail(stack))

\* C14: the depth is -1 whenever no dispatch is running; during a dispatch it
\* is never below 0, and every hook call, whether it returns, throws, returns a
\* falsy value or fails in a nested dispatch, ends at the depth it began at.
C14_DepthScoped ==
  /\ depth = -1
  /\ \A i \in 1..Len(last.log) : last.log[i].n >= 1
  /\ last.op = "applyHooks" => Nested(last.log, 1, <<>>)

\* A dispatch has failed in a dispatch nested in a dispatch nested in it.
C14_Witness ==
  /\ last.op = "applyHooks" /\ last.outcome # "ok"
  /\ depth = -1
  /\ \E i \in 1..Len(last.log) : last.log[i].ev = "threw" /\ last.log[i].n = 5
  /\ last.log[Len(last.log)].ev = "threw" /\ last.log[Len(last.log)].n = 1


(***************************************************************************)
(* Properties of rebuilds.                                                 *)
(***************************************************************************)
\* The hooks of a phase that the last call called itself, in order
PhaseCalls(name) ==
  [i \in 1..Len(SelectSeq(last.log, LAMBDA e : e.ev = "call" /\ e.name = name /\ e.n = 1)) |->
     SelectSeq(last.log, LAMBDA e : e.ev = "call" /\ e.name = name /\ e.n = 1)[i].id]

\* C15 as claimed: a rebuild caused by triggerChange creates no build object
\* and runs no hook of the build or init phase.
C15_ContextReused ==
  last.op = "triggerChange" =>
    /\ FreezeAt = {}
    /\ PhaseCalls("build") = <<>> /\ PhaseCalls("init") = <<>>

\* C15 amended: a rebuild caused by triggerChange runs every hook of the build
\* phase and, after freezing the new build object, every hook of the init
\* phase again, each once and in order, and constructs the artifact with that
\* new build object.
C15_ContextRecreated ==
  (last.op = "triggerChange" /\ last.outcome = "ok") =>
    /\ Cardinality(FreezeAt) = 1
    /\ PhaseCalls("build") = hooks["build"]
    /\ PhaseCalls("init") = hooks["init"]
    /\ \A f \in FreezeAt :
         /\ \A j \in 1..Len(last.log) :
              (last.log[j].ev = "call" /\ last.log[j].name = "build") => j < f
         /\ \A j \in 1..Len(last.log) :
              (last.log[j].ev = "call" /\ last.log[j].name = "init") => j > f
         /\ Len(Constructed) = 1 /\ Constructed[1].ctx = last.log[f].val
         /\ last.log[f].val = [BuildPhaseValue(f) EXCEPT !.frozen = TRUE, !.bound = TRUE]

\* The trigger has rebuilt an artifact that was in the cache, with two build
\* hooks and an init hook registered.
C15_Witness ==
  /\ last.op = "triggerChange" /\ last.outcome = "ok"
  /\ last.arg.kind = "obj"
  /\ Len(hooks["build"]) = 2 /\ Len(hooks["init"]) = 1
  /\ PhaseCalls("build") = hooks["build"] /\ PhaseCalls("init") = hooks["init"]


\* C16: a call of the trigger of a session that unwatchSchema has ended does
\* nothing: it leaves the cache as it was, runs and constructs nothing, and
\* notifies nobody.
C16_StaleTriggerInert ==
  last.op = "staleTrigger" => (last.log = <<>> /\ generatedSchema = last.arg)


(***************************************************************************)
(* Properties of failing builds.                                           *)
(***************************************************************************)
\* The hook failures in the log of the last call: a hook threw, or returned a
\* falsy value
Thrown ==
  SelectSeq(last.log, LAMBDA e : e.ev = "threw" \/ (e.ev = "ret" /\ IsFalsy(e.val)))

\* What a hook's failure makes of the dispatch
FailureOf(id) ==
  CASE HookFn(id).kind \in {"null", "zero"} -> "HookReturnedEmpty"
    [] HookFn(id).kind = "throw" -> "HookThrew"
    [] OTHER -> "TypeError"

\* C17: when a hook of the build or init phase or of the artifact's
\* construction fails in a buildSchema, called directly, by watchSchema or by
\* the trigger, the call fails with the hook's failure, constructs no artifact,
\* leaves the cache empty and notifies no listener.
C17_NoPartialBuild ==
  (last.op \in {"buildSchema", "watchSchema", "triggerChange"} /\ Thrown # <<>>) =>
    /\ last.outcome = FailureOf(Thrown[1].id)
    /\ Constructed = <<>>
    /\ generatedSchema = NullV
    /\ Notified = <<>>

\* The trigger was called with an artifact in the cache and a listener
\* subscribed, and the rebuild failed.
C17_Witness ==
  /\ last.op = "triggerChange" /\ last.outcome = "HookReturnedEmpty"
  /\ Thrown[1].name = "GraphQLSchema"
  /\ last.arg.kind = "obj"
  /\ Len(listeners) >= 1
  /\ generatedSchema = NullV


(***************************************************************************)
(* Properties of the pairing of listen and unlisten.                       *)
(***************************************************************************)
\* C18: the watchers and unwatchers lists always have the same length, and
\* unwatchSchema calls a watcher's unlisten with a trigger only if the
\* watcher's listen was called with that trigger in the session and no unlisten
\* since.
C18_ListenUnlistenPaired ==
  /\ [](Len(watchers) = Len(unwatchers))
  /\ [][last'.op = "unwatchSchema" =>
          \A j \in 1..Len(last'.log) :
            last'.log[j].ev = "unlisten" =>
              <<last'.log[j].id, last'.log[j].n>> \in listening]_vars

\* C18, the lists: they always have the same length.
C18_EqualLength == Len(watchers) = Len(unwatchers)


\* C19: a watchSchema that fails when the builder was idle leaves it idle,
\* with the listeners subscribed and the watchers listening that were before
\* the call, and has notified no listener.
C19_FailedStartLeavesIdle ==
  [][(~watching /\ last'.op = "watchSchema" /\ last'.outcome # "ok") =>
       /\ ~watching'
       /\ listeners' = listeners
       /\ listening' = listening
       /\ \A j \in 1..Len(last'.log) : last'.log[j].ev # "notify"]_vars

====
